---- MODULE Spec2Model ----
(***************************************************************************)
(* Model of verification/verify_timeline_editor.py: the top-level driver   *)
(* (launch, new_page, try/except/finally, end of the with block) and the   *)
(* linear body of test_timeline_editor, with the page's network requests   *)
(* answered by the registered page.route handlers.                         *)
(*                                                                         *)
(* Every call into the browser either returns or raises; which one is an   *)
(* input of the run.  URLs and glob patterns are sequences of tokens whose *)
(* concatenation is the text; "/" is always a token of its own.            *)
(***************************************************************************)
EXTENDS Integers, Sequences, FiniteSets, TLC

\* ------------------------------------------------------------------ bounds
MaxRequests == 2

\* --------------------------------------------------------------- constants
TargetUrl == "http://localhost:3000/timelines/tl1"
TimeoutPng == "verification/timeout.png"
VerificationPng == "verification/verification.png"

None == [kind |-> "none", step |-> "none"]

\* ------------------------------------------------------------ JSON fixtures
\* JSON values as tagged trees; json_dumps renders them as json.dumps does
\* with its default separators (", " and ": ").
JStr(s) == [t |-> "str", s |-> s]
JNum(n) == [t |-> "num", n |-> n]
JArr(xs) == [t |-> "arr", xs |-> xs]
JObj(kv) == [t |-> "obj", kv |-> kv]

RECURSIVE json_dumps(_)
RECURSIVE json_items(_, _)
RECURSIVE json_members(_, _)
json_items(xs, i) ==
    IF i > Len(xs) THEN ""
    ELSE (IF i > 1 THEN ", " ELSE "") \o json_dumps(xs[i]) \o json_items(xs, i + 1)
json_members(kv, i) ==
    IF i > Len(kv) THEN ""
    ELSE (IF i > 1 THEN ", " ELSE "") \o "\"" \o kv[i][1] \o "\": "
         \o json_dumps(kv[i][2]) \o json_members(kv, i + 1)
json_dumps(v) ==
    CASE v.t = "str" -> "\"" \o v.s \o "\""
      [] v.t = "num" -> ToString(v.n)
      [] v.t = "arr" -> "[" \o json_items(v.xs, 1) \o "]"
      [] v.t = "obj" -> "{" \o json_members(v.kv, 1) \o "}"

auth_refresh_data ==
    JObj(<< <<"record", JObj(<< <<"id", JStr("user1")>>,
                                <<"email", JStr("test@test.com")>> >>)>>,
            <<"token", JStr("test-token")>> >>)
workspace_data ==
    JObj(<< <<"items", JArr(<< JObj(<< <<"id", JStr("ws1")>>,
                                       <<"name", JStr("Test Workspace")>>,
                                       <<"members", JArr(<<JStr("user1")>>)>> >>) >>)>> >>)
timeline_data ==
    JObj(<< <<"id", JStr("tl1")>>,
            <<"name", JStr("Test Timeline")>>,
            <<"WorkspaceRef", JStr("ws1")>>,
            <<"clips", JArr(<<>>)>>,
            <<"duration", JNum(100)>>,
            <<"expand", JObj(<< <<"TimelineClips_via_TimelineRef", JArr(<<>>)>> >>)>> >>)
media_clips_data ==
    JObj(<< <<"items", JArr(<<>>)>>, <<"totalItems", JNum(0)>> >>)
recommendations_data ==
    JObj(<< <<"items", JArr(<<>>)>>, <<"totalItems", JNum(0)>> >>)

\* --------------------------------------------------------- route handlers
\* Variant: the JSON handler answers with the status of the file handler.
handle_json_wrong_status(data) ==
    [status |-> 404, contentType |-> "application/json",
     body |-> json_dumps(data), printed |-> TRUE]
\* handle_json(route, data): print "MOCKING: <url>", then route.fulfill.
handle_json(data) ==
    [status |-> 200, contentType |-> "application/json",
     body |-> json_dumps(data), printed |-> TRUE]
\* lambda route: route.fulfill(status=404)
fulfill_404 ==
    [status |-> 404, contentType |-> "", body |-> "", printed |-> FALSE]

\* ------------------------------------------------------------ URL patterns
PatAuthRefresh ==
    <<"**", "/", "api", "/", "collections", "/", "users", "/", "auth-refresh">>
PatWorkspaces ==
    <<"**", "/", "api", "/", "collections", "/", "Workspaces", "/", "records", "**">>
PatTimeline ==
    <<"**", "/", "api", "/", "collections", "/", "Timelines", "/", "records", "/", "tl1", "*">>
PatMediaClips ==
    <<"**", "/", "api", "/", "collections", "/", "MediaClips", "/", "records", "**">>
PatRecommendations ==
    <<"**", "/", "api", "/", "collections", "/", "TimelineRecommendations", "/", "records", "**">>
PatFiles ==
    <<"**", "/", "api", "/", "files", "/", "**">>

\* The glob dialects of page.route.  "segment": a run of stars is deep only
\* between "/" or the ends of the pattern, otherwise it stays within one path
\* segment.  "greedy": a run of two or more stars matches any text.
Dialects == {"segment", "greedy"}

NoSlash(m) == \A k \in 1..Len(m) : m[k] # "/"
EndsWithSlash(m) == Len(m) > 0 /\ m[Len(m)] = "/"

\* The text a star token at position i of pattern p may stand for, and the
\* number of pattern tokens it consumes (a deep run swallows the "/" after it).
StarWidth(d, p, i) ==
    LET before == IF i = 1 THEN "" ELSE p[i - 1]
        after == IF i = Len(p) THEN "" ELSE p[i + 1]
    IN  IF p[i] = "*" THEN 1
        ELSE IF d = "segment"
             THEN IF before \in {"", "/"} /\ after \in {"", "/"} THEN 2 ELSE 1
             ELSE IF after = "/" THEN 2 ELSE 1
StarAccepts(d, p, i, m, atEnd) ==
    LET before == IF i = 1 THEN "" ELSE p[i - 1]
        after == IF i = Len(p) THEN "" ELSE p[i + 1]
    IN  IF p[i] = "*" THEN NoSlash(m)
        ELSE IF d = "segment"
             THEN IF before \in {"", "/"} /\ after \in {"", "/"}
                  THEN m = <<>> \/ EndsWithSlash(m) \/ atEnd  \* ((?:[^/]*(?:/|$))*)
                  ELSE NoSlash(m)                             \* ([^/]*)
             ELSE IF after = "/"
                  THEN IF before = "/"
                       THEN m = <<>> \/ EndsWithSlash(m)      \* ((.+/)|)
                       ELSE EndsWithSlash(m)                  \* (.*/)
                  ELSE TRUE                                   \* (.*)

RECURSIVE GlobMatchFrom(_, _, _, _)
GlobMatchFrom(d, p, i, u) ==
    IF i > Len(p) THEN u = <<>>
    ELSE IF p[i] \in {"*", "**"}
         THEN \E k \in 0..Len(u) :
                 /\ StarAccepts(d, p, i, SubSeq(u, 1, k), k = Len(u))
                 /\ GlobMatchFrom(d, p, i + StarWidth(d, p, i), SubSeq(u, k + 1, Len(u)))
         ELSE /\ u # <<>>
              /\ u[1] = p[i]
              /\ GlobMatchFrom(d, p, i + 1, Tail(u))
GlobMatch(d, p, u) == GlobMatchFrom(d, p, 1, u)

\* ------------------------------------------------------------ request URLs
Origin == <<"http://localhost:3000">>
Api(coll) == Origin \o <<"/", "api", "/", "collections", "/", coll>>
UrlDocument == Origin \o <<"/", "timelines", "/", "tl1">>
UrlAuthRefresh == Api("users") \o <<"/", "auth-refresh">>
UrlWorkspaces == Api("Workspaces") \o <<"/", "records", "?page=1">>
UrlWorkspaceOne == Api("Workspaces") \o <<"/", "records", "/", "ws1">>
UrlTimeline == Api("Timelines") \o <<"/", "records", "/", "tl1", "?expand=x">>
UrlTimelineTen == Api("Timelines") \o <<"/", "records", "/", "tl1", "0">>
UrlTimelineList == Api("Timelines") \o <<"/", "records">>
UrlMediaClips == Api("MediaClips") \o <<"/", "records", "?page=1">>
UrlRecommendations == Api("TimelineRecommendations") \o <<"/", "records">>
UrlFile == Origin \o <<"/", "api", "/", "files", "/", "c1", "/", "thumb.png">>
UrlFileNamedAuthRefresh ==
    Origin \o <<"/", "api", "/", "files", "/", "c1", "/", "api", "/",
                "collections", "/", "users", "/", "auth-refresh">>
UrlMediaClipsOfFile ==
    Api("MediaClips") \o <<"/", "records", "?src=", "/", "api", "/", "files", "/", "c1">>
Urls ==
    {UrlDocument, UrlAuthRefresh, UrlWorkspaces, UrlWorkspaceOne, UrlTimeline,
     UrlTimelineTen, UrlTimelineList, UrlMediaClips, UrlRecommendations, UrlFile,
     UrlFileNamedAuthRefresh, UrlMediaClipsOfFile}

\* -------------------------------------------------------------------- state
VARIABLES
    pc,            \* position of the script
    dialect,       \* glob dialect of the installed browser-automation library
    launched,      \* p.chromium.launch returned a browser
    closeCalls,    \* number of browser.close() calls made
    listeners,     \* page events with a registered listener
    routes,        \* registered route handlers, most recently registered first
    pageUrl,       \* document the page is showing or loading
    localStorage,  \* value under the key pocketbase_auth, "" when absent
    cookie,        \* value of the cookie pb_auth, "" when absent
    requests,      \* the page's network requests and how each was answered
    trace,         \* page operations of test_timeline_editor started so far
    completed,     \* those of them that have returned normally
    passed,        \* visibility assertions that passed
    files,         \* screenshot files written
    exc,           \* exception currently propagating (None when there is none)
    firstFailure,  \* the first exception a page operation raised
    stdout,        \* lines printed by the script
    exitStatus     \* exit status of the process, -1 while it runs

vars == <<pc, dialect, launched, closeCalls, listeners, routes, pageUrl,
          localStorage, cookie, requests, trace, completed, passed, files,
          exc, firstFailure, stdout, exitStatus>>

AuthStoreJson ==
    "{\"token\":\"test-token\",\"model\":{\"id\":\"user1\",\"email\":\"test@test.com\"}}"

Init ==
    /\ pc = "launch"
    /\ dialect \in Dialects
    /\ launched = FALSE
    /\ closeCalls = 0
    /\ listeners = {}
    /\ routes = <<>>
    /\ pageUrl = "about:blank"
    /\ localStorage = ""
    /\ cookie = ""
    /\ requests = <<>>
    /\ trace = <<>>
    /\ completed = <<>>
    /\ passed = {}
    /\ files = {}
    /\ exc = None
    /\ firstFailure = None
    /\ stdout = <<>>
    /\ exitStatus = -1

\* ------------------------------------------------------------ step helpers
\* Exceptions a call can raise; all of them are subclasses of Exception.
CallErrors == {"Error", "TimeoutError"}
ExpectErrors == {"AssertionError", "Error"}

\* The page operation `step` returns normally and control moves to `next`.
Returns(step, next) ==
    /\ trace' = Append(trace, step)
    /\ completed' = Append(completed, step)
    /\ pc' = next
    /\ UNCHANGED <<exc, firstFailure>>

\* The page operation `step` raises `kind`; control moves to `handler`.
Raises(step, kind, handler) ==
    /\ trace' = Append(trace, step)
    /\ completed' = completed
    /\ exc' = [kind |-> kind, step |-> step]
    /\ firstFailure' = IF firstFailure = None
                       THEN [kind |-> kind, step |-> step] ELSE firstFailure
    /\ pc' = handler

\* page.route(pattern, handler): the new handler goes in front of the others.
Route(step, pattern, response, next) ==
    /\ pc = step
    /\ \/ /\ Returns(step, next)
          /\ routes' = <<[pattern |-> pattern, response |-> response]>> \o routes
       \/ /\ \E k \in CallErrors : Raises(step, k, "except")
          /\ UNCHANGED routes
    /\ UNCHANGED <<dialect, launched, closeCalls, listeners, pageUrl, localStorage,
                   cookie, requests, passed, files, stdout, exitStatus>>

\* A page operation that touches nothing but the page's UI.
Interact(step, next, line) ==
    /\ pc = step
    /\ \/ /\ Returns(step, next)
          /\ stdout' = stdout \o line
       \/ /\ \E k \in CallErrors : Raises(step, k, "except")
          /\ UNCHANGED stdout
    /\ UNCHANGED <<dialect, launched, closeCalls, listeners, routes, pageUrl,
                   localStorage, cookie, requests, passed, files, exitStatus>>

\* Variant: every failed assertion takes the diagnostic screenshot.
ExpectWithScreenshot(step, next, line) ==
    /\ pc = step
    /\ \/ /\ Returns(step, next)
          /\ passed' = passed \cup {step}
          /\ stdout' = stdout \o line
          /\ UNCHANGED files
       \/ /\ \E k \in ExpectErrors : Raises(step, k, "except")
          /\ files' = files \cup {TimeoutPng}
          /\ UNCHANGED <<passed, stdout>>
    /\ UNCHANGED <<dialect, launched, closeCalls, listeners, routes, pageUrl,
                   localStorage, cookie, requests, exitStatus>>

\* expect(locator).to_be_visible() outside any try block.
Expect(step, next, line) ==
    /\ pc = step
    /\ \/ /\ Returns(step, next)
          /\ passed' = passed \cup {step}
          /\ stdout' = stdout \o line
       \/ /\ \E k \in ExpectErrors : Raises(step, k, "except")
          /\ UNCHANGED <<passed, stdout>>
    /\ UNCHANGED <<dialect, launched, closeCalls, listeners, routes, pageUrl,
                   localStorage, cookie, requests, files, exitStatus>>

\* ------------------------------------------------------------------ driver
Launch ==
    /\ pc = "launch"
    /\ \/ /\ launched' = TRUE
          /\ pc' = "new_page"
          /\ UNCHANGED exc
       \/ /\ \E k \in CallErrors : exc' = [kind |-> k, step |-> "launch"]
          /\ pc' = "with_exit"
          /\ UNCHANGED launched
    /\ UNCHANGED <<dialect, closeCalls, listeners, routes, pageUrl, localStorage,
                   cookie, requests, trace, completed, passed, files,
                   firstFailure, stdout, exitStatus>>

\* browser.new_page() stands before the try statement.
NewPage ==
    /\ pc = "new_page"
    /\ \/ /\ pc' = "on"
          /\ UNCHANGED exc
       \/ /\ \E k \in CallErrors : exc' = [kind |-> k, step |-> "new_page"]
          /\ pc' = "with_exit"
    /\ UNCHANGED <<dialect, launched, closeCalls, listeners, routes, pageUrl,
                   localStorage, cookie, requests, trace, completed, passed,
                   files, firstFailure, stdout, exitStatus>>

\* f"Error: {e}"
ErrorLine(e) == "Error: " \o e.kind \o " in " \o e.step

\* Variant: the handler logs and re-raises.
DriverExceptReraises ==
    /\ pc = "except"
    /\ stdout' = Append(stdout, ErrorLine(exc))
    /\ pc' = "finally"
    /\ UNCHANGED <<dialect, launched, closeCalls, listeners, routes, pageUrl,
                   localStorage, cookie, requests, trace, completed, passed,
                   files, exc, firstFailure, exitStatus>>

\* except Exception as e: print(f"Error: {e}")
DriverExcept ==
    /\ pc = "except"
    /\ stdout' = Append(stdout, ErrorLine(exc))
    /\ exc' = None
    /\ pc' = "finally"
    /\ UNCHANGED <<dialect, launched, closeCalls, listeners, routes, pageUrl,
                   localStorage, cookie, requests, trace, completed, passed,
                   files, firstFailure, exitStatus>>

\* finally: browser.close()
BrowserClose ==
    /\ pc = "finally"
    /\ closeCalls' = closeCalls + 1
    /\ pc' = "with_exit"
    /\ UNCHANGED <<dialect, launched, listeners, routes, pageUrl, localStorage,
                   cookie, requests, trace, completed, passed, files, exc,
                   firstFailure, stdout, exitStatus>>

\* End of the with block and of the script: an exception still propagating
\* ends the process with a traceback and status 1.
WithExit ==
    /\ pc = "with_exit"
    /\ exitStatus' = IF exc = None THEN 0 ELSE 1
    /\ pc' = "exited"
    /\ UNCHANGED <<dialect, launched, closeCalls, listeners, routes, pageUrl,
                   localStorage, cookie, requests, trace, completed, passed,
                   files, exc, firstFailure, stdout>>

\* ---------------------------------------------------- test_timeline_editor
RegisterListeners ==
    /\ pc = "on"
    /\ listeners' = {"console", "pageerror"}
    /\ pc' = "route_auth_refresh"
    /\ UNCHANGED <<dialect, launched, closeCalls, routes, pageUrl, localStorage,
                   cookie, requests, trace, completed, passed, files, exc,
                   firstFailure, stdout, exitStatus>>

RouteAuthRefresh ==
    Route("route_auth_refresh", PatAuthRefresh, handle_json(auth_refresh_data),
          "route_workspaces")
RouteWorkspaces ==
    Route("route_workspaces", PatWorkspaces, handle_json(workspace_data),
          "route_timeline")
RouteTimeline ==
    Route("route_timeline", PatTimeline, handle_json(timeline_data),
          "route_media_clips")
RouteMediaClips ==
    Route("route_media_clips", PatMediaClips, handle_json(media_clips_data),
          "route_recommendations")
RouteRecommendations ==
    Route("route_recommendations", PatRecommendations,
          handle_json(recommendations_data), "route_files")
RouteFiles ==
    Route("route_files", PatFiles, fulfill_404, "goto")

\* print("Navigating..."); page.goto(...) starts the navigation ...
Goto ==
    /\ pc = "goto"
    /\ stdout' = Append(stdout, "Navigating...")
    /\ trace' = Append(trace, "goto")
    /\ pageUrl' = TargetUrl
    /\ pc' = "goto_load"
    /\ UNCHANGED <<dialect, launched, closeCalls, listeners, routes, localStorage,
                   cookie, requests, completed, passed, files, exc, firstFailure,
                   exitStatus>>

\* ... and returns when the load event fires, or raises.
GotoLoad ==
    /\ pc = "goto_load"
    /\ \/ /\ completed' = Append(completed, "goto")
          /\ pc' = "evaluate"
          /\ UNCHANGED <<exc, firstFailure>>
       \/ \E k \in CallErrors :
             /\ exc' = [kind |-> k, step |-> "goto"]
             /\ firstFailure' = [kind |-> k, step |-> "goto"]
             /\ pc' = "except"
             /\ UNCHANGED completed
    /\ UNCHANGED <<dialect, launched, closeCalls, listeners, routes, pageUrl,
                   localStorage, cookie, requests, trace, passed, files, stdout,
                   exitStatus>>

\* Variant: the reload after the injection is left out.
EvaluateSkipsReload ==
    /\ pc = "evaluate"
    /\ stdout' = Append(stdout, "Injecting auth...")
    /\ \/ /\ Returns("evaluate", "wait_timeline")
          /\ localStorage' = AuthStoreJson
          /\ cookie' = AuthStoreJson
       \/ /\ \E k \in CallErrors : Raises("evaluate", k, "except")
          /\ UNCHANGED <<localStorage, cookie>>
    /\ UNCHANGED <<dialect, launched, closeCalls, listeners, routes, pageUrl,
                   requests, passed, files, exitStatus>>

\* print("Injecting auth..."); page.evaluate(...)
Evaluate ==
    /\ pc = "evaluate"
    /\ stdout' = Append(stdout, "Injecting auth...")
    /\ \/ /\ Returns("evaluate", "reload")
          /\ localStorage' = AuthStoreJson
          /\ cookie' = AuthStoreJson
       \/ /\ \E k \in CallErrors : Raises("evaluate", k, "except")
          /\ UNCHANGED <<localStorage, cookie>>
    /\ UNCHANGED <<dialect, launched, closeCalls, listeners, routes, pageUrl,
                   requests, passed, files, exitStatus>>

\* Variant: the reloaded page has lost the route handlers.
ReloadDropsRoutes ==
    /\ pc = "reload"
    /\ stdout' = Append(stdout, "Reloading...")
    /\ trace' = Append(trace, "reload")
    /\ routes' = <<>>
    /\ pc' = "reload_load"
    /\ UNCHANGED <<dialect, launched, closeCalls, listeners, pageUrl,
                   localStorage, cookie, requests, completed, passed, files, exc,
                   firstFailure, exitStatus>>

\* print("Reloading..."); page.reload() starts the reload ...
Reload ==
    /\ pc = "reload"
    /\ stdout' = Append(stdout, "Reloading...")
    /\ trace' = Append(trace, "reload")
    /\ pc' = "reload_load"
    /\ UNCHANGED <<dialect, launched, closeCalls, listeners, routes, pageUrl,
                   localStorage, cookie, requests, completed, passed, files, exc,
                   firstFailure, exitStatus>>

\* ... and returns when the load event fires, or raises.
ReloadLoad ==
    /\ pc = "reload_load"
    /\ \/ /\ completed' = Append(completed, "reload")
          /\ pc' = "wait_timeline"
          /\ UNCHANGED <<exc, firstFailure>>
       \/ \E k \in CallErrors :
             /\ exc' = [kind |-> k, step |-> "reload"]
             /\ firstFailure' = [kind |-> k, step |-> "reload"]
             /\ pc' = "except"
             /\ UNCHANGED completed
    /\ UNCHANGED <<dialect, launched, closeCalls, listeners, routes, pageUrl,
                   localStorage, cookie, requests, trace, passed, files, stdout,
                   exitStatus>>

\* print("Waiting for content..."); try: expect(...).to_be_visible(timeout=10000)
\* A failure is caught by the bare except of the function.
WaitTimeline ==
    /\ pc = "wait_timeline"
    /\ \/ /\ Returns("wait_timeline", "click_recent")
          /\ passed' = passed \cup {"wait_timeline"}
          /\ stdout' = stdout \o <<"Waiting for content...", "Timeline loaded.">>
       \/ /\ \E k \in ExpectErrors : Raises("wait_timeline", k, "timeout_screenshot")
          /\ stdout' = Append(stdout, "Waiting for content...")
          /\ UNCHANGED passed
    /\ UNCHANGED <<dialect, launched, closeCalls, listeners, routes, pageUrl,
                   localStorage, cookie, requests, files, exitStatus>>

\* Variant: the handler takes the screenshot and does not re-raise.
TimeoutScreenshotSwallows ==
    /\ pc = "timeout_screenshot"
    /\ stdout' = Append(stdout, "Timeout. Taking screenshot...")
    /\ trace' = Append(trace, "timeout_screenshot")
    /\ \/ /\ files' = files \cup {TimeoutPng}
          /\ completed' = Append(completed, "timeout_screenshot")
          /\ exc' = None
          /\ pc' = "click_recent"
       \/ /\ \E k \in CallErrors : exc' = [kind |-> k, step |-> "timeout_screenshot"]
          /\ pc' = "except"
          /\ UNCHANGED <<files, completed>>
    /\ UNCHANGED <<dialect, launched, closeCalls, listeners, routes, pageUrl,
                   localStorage, cookie, requests, passed, firstFailure, exitStatus>>

\* except: print("Timeout. Taking screenshot..."); page.screenshot(...); raise
\* If the screenshot raises, its exception replaces the caught one.
TimeoutScreenshot ==
    /\ pc = "timeout_screenshot"
    /\ stdout' = Append(stdout, "Timeout. Taking screenshot...")
    /\ trace' = Append(trace, "timeout_screenshot")
    /\ pc' = "except"
    /\ \/ /\ files' = files \cup {TimeoutPng}
          /\ completed' = Append(completed, "timeout_screenshot")
          /\ UNCHANGED exc
       \/ /\ \E k \in CallErrors : exc' = [kind |-> k, step |-> "timeout_screenshot"]
          /\ UNCHANGED <<files, completed>>
    /\ UNCHANGED <<dialect, launched, closeCalls, listeners, routes, pageUrl,
                   localStorage, cookie, requests, passed, firstFailure, exitStatus>>

ClickRecent == Interact("click_recent", "expect_creation_time", <<>>)
ExpectCreationTime ==
    Expect("expect_creation_time", "press_escape", <<"Creation Time option found.">>)
PressEscape == Interact("press_escape", "expect_settings", <<>>)
ExpectSettings ==
    Expect("expect_settings", "click_settings", <<"Settings button found.">>)
ClickSettings == Interact("click_settings", "expect_recommendation_settings", <<>>)
ExpectRecommendationSettings ==
    Expect("expect_recommendation_settings", "expect_active_strategies", <<>>)
ExpectActiveStrategies ==
    Expect("expect_active_strategies", "screenshot", <<"Settings modal opened.">>)

\* Variant: the final screenshot goes to the diagnostic path.
ScreenshotWrongPath ==
    /\ pc = "screenshot"
    /\ \/ /\ Returns("screenshot", "finally")
          /\ files' = files \cup {TimeoutPng}
          /\ stdout' = Append(stdout, "Screenshot taken.")
       \/ /\ \E k \in CallErrors : Raises("screenshot", k, "except")
          /\ UNCHANGED <<files, stdout>>
    /\ UNCHANGED <<dialect, launched, closeCalls, listeners, routes, pageUrl,
                   localStorage, cookie, requests, passed, exitStatus>>

\* page.screenshot(path="verification/verification.png"); print(...); return
Screenshot ==
    /\ pc = "screenshot"
    /\ \/ /\ Returns("screenshot", "finally")
          /\ files' = files \cup {VerificationPng}
          /\ stdout' = Append(stdout, "Screenshot taken.")
       \/ /\ \E k \in CallErrors : Raises("screenshot", k, "except")
          /\ UNCHANGED <<files, stdout>>
    /\ UNCHANGED <<dialect, launched, closeCalls, listeners, routes, pageUrl,
                   localStorage, cookie, requests, passed, exitStatus>>

\* ------------------------------------------------------- network requests
Installed(rs) == {rs[i].pattern : i \in 1..Len(rs)}

\* The handler that answers u: the first one in rs whose pattern matches.
RECURSIVE FirstMatch(_, _, _, _)
FirstMatch(d, rs, i, u) ==
    IF i > Len(rs) THEN 0
    ELSE IF GlobMatch(d, rs[i].pattern, u) THEN i
    ELSE FirstMatch(d, rs, i + 1, u)

Answer(d, rs, u) ==
    LET i == FirstMatch(d, rs, 1, u)
    IN  IF i = 0
        THEN [url |-> u, via |-> "network", status |-> 0, contentType |-> "",
              body |-> "", printed |-> FALSE, installed |-> Installed(rs)]
        ELSE [url |-> u, via |-> "fulfill", status |-> rs[i].response.status,
              contentType |-> rs[i].response.contentType,
              body |-> rs[i].response.body,
              printed |-> rs[i].response.printed, installed |-> Installed(rs)]

\* The page issues a request: while it loads or shows the target document
\* and the browser has not been closed.
PageRequest ==
    /\ pageUrl = TargetUrl
    /\ closeCalls = 0
    /\ pc # "exited"
    /\ Len(requests) < MaxRequests
    /\ \E u \in Urls : requests' = Append(requests, Answer(dialect, routes, u))
    /\ UNCHANGED <<pc, dialect, launched, closeCalls, listeners, routes, pageUrl,
                   localStorage, cookie, trace, completed, passed, files, exc,
                   firstFailure, stdout, exitStatus>>

Next ==
    \/ Launch \/ NewPage \/ DriverExcept \/ BrowserClose \/ WithExit
    \/ RegisterListeners
    \/ RouteAuthRefresh \/ RouteWorkspaces \/ RouteTimeline
    \/ RouteMediaClips \/ RouteRecommendations \/ RouteFiles
    \/ Goto \/ GotoLoad \/ Evaluate \/ Reload \/ ReloadLoad
    \/ WaitTimeline \/ TimeoutScreenshot
    \/ ClickRecent \/ ExpectCreationTime \/ PressEscape
    \/ ExpectSettings \/ ClickSettings
    \/ ExpectRecommendationSettings \/ ExpectActiveStrategies
    \/ Screenshot
    \/ PageRequest

Spec == Init /\ [][Next]_vars

\* ================================================================== claims
Range(q) == {q[i] : i \in 1..Len(q)}
IsPrefix(a, b) == Len(a) <= Len(b) /\ a = SubSeq(b, 1, Len(a))

\* The page operations in the order of the function body.
StepOrder ==
    <<"route_auth_refresh", "route_workspaces", "route_timeline",
      "route_media_clips", "route_recommendations", "route_files",
      "goto", "evaluate", "reload", "wait_timeline",
      "click_recent", "expect_creation_time", "press_escape",
      "expect_settings", "click_settings",
      "expect_recommendation_settings", "expect_active_strategies",
      "screenshot">>
Assertions ==
    {"wait_timeline", "expect_creation_time", "expect_settings",
     "expect_recommendation_settings", "expect_active_strategies"}
SortAndSettingsSteps ==
    {"click_recent", "expect_creation_time", "press_escape", "expect_settings",
     "click_settings", "expect_recommendation_settings", "expect_active_strategies"}
IsMainStep(s) == s # "timeout_screenshot"
MainTrace == SelectSeq(trace, IsMainStep)

MockedPatterns ==
    {PatAuthRefresh, PatWorkspaces, PatTimeline, PatMediaClips,
     PatRecommendations, PatFiles}
RegistrationOrder ==
    <<PatAuthRefresh, PatWorkspaces, PatTimeline, PatMediaClips,
      PatRecommendations, PatFiles>>
ConfiguredStatus(p) == IF p = PatFiles THEN 404 ELSE 200
ConfiguredBody(p) ==
    CASE p = PatAuthRefresh ->
           "{\"record\": {\"id\": \"user1\", \"email\": \"test@test.com\"}, \"token\": \"test-token\"}"
      [] p = PatWorkspaces ->
           "{\"items\": [{\"id\": \"ws1\", \"name\": \"Test Workspace\", \"members\": [\"user1\"]}]}"
      [] p = PatTimeline ->
           "{\"id\": \"tl1\", \"name\": \"Test Timeline\", \"WorkspaceRef\": \"ws1\", \"clips\": [], \"duration\": 100, \"expand\": {\"TimelineClips_via_TimelineRef\": []}}"
      [] p = PatMediaClips -> "{\"items\": [], \"totalItems\": 0}"
      [] p = PatRecommendations -> "{\"items\": [], \"totalItems\": 0}"
      [] p = PatFiles -> ""
\* The registered patterns each request URL matches, per dialect.
MatchTable ==
    [d \in Dialects |-> [u \in Urls |-> {p \in MockedPatterns : GlobMatch(d, p, u)}]]
Matching(u) == MatchTable[dialect][u]
RegistrationIndex(p) == CHOOSE i \in 1..Len(RegistrationOrder) : RegistrationOrder[i] = p
LastRegistered(ps) ==
    CHOOSE p \in ps : \A q \in ps : RegistrationIndex(q) <= RegistrationIndex(p)
AnsweredAs(r, p) ==
    /\ r.via = "fulfill"
    /\ r.status = ConfiguredStatus(p)
    /\ r.body = ConfiguredBody(p)
ErrorLines ==
    {ErrorLine([kind |-> k, step |-> s]) :
        k \in CallErrors \cup ExpectErrors,
        s \in Range(StepOrder) \cup {"timeout_screenshot"}}
ErrorLogged == \E i \in 1..Len(stdout) : stdout[i] \in ErrorLines

\* C1: on every path of the driver that launched the browser, browser.close()
\* has been called exactly once when the process ends, and never twice.
C1_ClosedExactlyOnce ==
    /\ closeCalls <= 1
    /\ (pc = "exited" /\ launched) => closeCalls = 1

\* C2: whenever the failure of one of the five visibility assertions leaves
\* test_timeline_editor, verification/timeout.png has been written and the
\* exception that propagates is the one the assertion raised.
C2_TimeoutAlwaysScreenshot ==
    (pc = "except" /\ firstFailure.step \in Assertions
                   /\ firstFailure.kind = "AssertionError")
        => (TimeoutPng \in files /\ exc = firstFailure)

\* C3 (as stated): in every run where all five visibility assertions passed
\* (so navigation, injection and reload succeeded too), verification.png is
\* there by the time the browser is closed.
C3_VerificationShotWheneverAssertionsPass ==
    (Assertions \subseteq passed /\ closeCalls > 0) => VerificationPng \in files

\* C3 (amended): the same, for the runs in which the final page.screenshot
\* call does not raise.
C3_VerificationShotBeforeClose ==
    (Assertions \subseteq passed /\ closeCalls > 0 /\ firstFailure.step # "screenshot")
        => VerificationPng \in files
C3_Witness ==
    Assertions \subseteq passed /\ closeCalls > 0 /\ VerificationPng \in files

\* C4 (as stated): a request whose URL matches a registered pattern is
\* fulfilled with that pattern's status and body, for every pattern it matches.
C4_EveryMatchingPatternAnswers ==
    \A i \in 1..Len(requests) :
        \A p \in Matching(requests[i].url) : AnsweredAs(requests[i], p)

\* C4 (amended): a request whose URL matches at least one registered pattern
\* is fulfilled, never forwarded, with the status and body of the matching
\* pattern that was registered last.
C4_LastRegisteredMatchAnswers ==
    \A i \in 1..Len(requests) :
        Matching(requests[i].url) # {}
            => AnsweredAs(requests[i], LastRegistered(Matching(requests[i].url)))
C4_Witness ==
    \E i \in 1..Len(requests) :
        /\ requests[i].url = UrlFileNamedAuthRefresh
        /\ Matching(requests[i].url) = {PatAuthRefresh, PatFiles}
        /\ requests[i].status = 404

\* C5: once the navigation has started all six handlers are installed, and
\* every request to a mocked endpoint was issued with its handler installed.
C5_HandlersInstalledBeforeRequests ==
    /\ pageUrl = TargetUrl => MockedPatterns \subseteq Installed(routes)
    /\ \A i \in 1..Len(requests) : Matching(requests[i].url) \subseteq requests[i].installed
C5_Witness ==
    /\ pc = "wait_timeline"
    /\ Len(requests) = MaxRequests
    /\ Matching(requests[Len(requests)].url) # {}

\* C6: no exception escapes the driver, and every run ends either with the
\* script returned or with the exception logged and the browser closed.
C6_TwoTerminalStates ==
    pc = "exited" =>
        /\ exc = None
        /\ \/ firstFailure = None /\ ~ErrorLogged /\ Range(StepOrder) \subseteq Range(completed)
           \/ firstFailure # None /\ ErrorLogged /\ closeCalls = 1

\* C7: a run that entered test_timeline_editor ends with exit status 0,
\* whether a verification step failed or every step succeeded.
C7_ExitStatusHidesOutcome ==
    (pc = "exited" /\ (firstFailure # None \/ VerificationPng \in files))
        => exitStatus = 0
C7_Witness ==
    /\ pc = "exited"
    /\ firstFailure = [kind |-> "AssertionError", step |-> "expect_active_strategies"]
    /\ exitStatus = 0

\* C8: the page operations are started in the order of the function body,
\* none twice, and each only after the one before it has returned.
C8_FixedOrderNoRetry ==
    /\ IsPrefix(MainTrace, StepOrder)
    /\ \A i \in 2..Len(MainTrace) : MainTrace[i - 1] \in Range(completed)
C8_Witness ==
    MainTrace = StepOrder /\ pc = "exited"

\* C9: the page operation that failed first is the last one of the function
\* body to be started, and verification.png is written only when all five
\* visibility assertions passed.
C9_FirstFailureAborts ==
    /\ firstFailure # None => MainTrace[Len(MainTrace)] = firstFailure.step
    /\ VerificationPng \in files => Assertions \subseteq passed
C9_Witness ==
    /\ pc = "exited"
    /\ firstFailure.step = "expect_settings"
    /\ "wait_timeline" \in passed

\* C10: no run writes both screenshots; timeout.png is written only after the
\* wait for "Test Timeline" failed, and then no sort-control or settings
\* operation is ever started.
C10_ScreenshotsExclusive ==
    /\ ~(TimeoutPng \in files /\ VerificationPng \in files)
    /\ TimeoutPng \in files =>
          /\ firstFailure.step = "wait_timeline"
          /\ Range(trace) \cap SortAndSettingsSteps = {}
C10_Witness ==
    pc = "exited" /\ TimeoutPng \in files

====
